---- MODULE Spec2Model ----
(***************************************************************************)
(* Model of the OSDE HIV endpoints (main.py and its earlier variant        *)
(* "main (1).py"): the two in-memory mock stores, the two PostgreSQL       *)
(* tables the handlers read, and one action per HTTP handler.              *)
(*                                                                         *)
(* Member numbers (socio) are sequences of one-character strings, because  *)
(* the handlers compare them with Python's substring operator `in`.        *)
(* Ticket ids and medication codes are only compared for equality or used  *)
(* as dictionary keys, so they are plain strings.                          *)
(***************************************************************************)
EXTENDS Integers, Sequences, FiniteSets, TLC

VARIABLES MOCK_RECETAS_DB, TICKETS_MOCK, medicamentos_HIV,
          tablasustitucion_hiv, last

vars == <<MOCK_RECETAS_DB, TICKETS_MOCK, medicamentos_HIV,
          tablasustitucion_hiv, last>>

\* The four stores no handler is supposed to write.
stores == <<MOCK_RECETAS_DB, TICKETS_MOCK, medicamentos_HIV,
            tablasustitucion_hiv>>

-----------------------------------------------------------------------------
(* Bounds *)

\* Largest number of rows of public."tablasustitucion_hiv" explored.
MaxRules == 1

-----------------------------------------------------------------------------
(* Member numbers and display names, as character sequences *)

Socio_Carolina == <<"6", "1", "1", "3", "4", "5", "9", "2", "6", "0", "1">>
Socio_Roberto == <<"6", "2", "2", "4", "5", "6", "9", "3", "7", "0", "2">>
Socio_Maria == <<"6", "3", "3", "5", "6", "7", "0", "4", "8", "0", "3">>
Socio_Juan == <<"6", "4", "4", "6", "7", "8", "1", "5", "9", "0", "4">>
Socio_Desconocido == <<"0", "0", "0", "0", "0", "0", "0", "0", "0", "0", "0">>
Nombre_Carolina == <<" ", "-", " ", "C", "A", "R", "O", "L", "I", "N", "A">>
Nombre_Roberto == <<" ", "-", " ", "R", "O", "B", "E", "R", "T", "O">>
Nombre_Maria == <<" ", "-", " ", "M", "A", "R", "I", "A">>
Nombre_Juan == <<" ", "-", " ", "J", "U", "A", "N">>

\* Python's `a in b` on two str values: a occurs in b as a contiguous run.
StrIn(a, b) ==
    \E i \in 0..(Len(b) - Len(a)) : SubSeq(b, i + 1, i + Len(a)) = a

-----------------------------------------------------------------------------
(* The mock stores *)

\* main.py: Ticket ID -> { socio, recetas }
MOCK_RECETAS_DB_Init ==
    [id \in {"1000073123", "1000073124", "1000073125", "1000073199"} |->
        CASE id = "1000073123" ->
                [socio |-> Socio_Carolina,
                 recetas |-> << [Troquel |-> "45282", Codigo |-> "18000",
                                 monodroga |-> "ABACAVIR/LAMIVUDINA",
                                 descripcion |-> "ABACAVIR/LAMIVUDINA 600/300 MG"] >>]
          [] id = "1000073124" ->
                [socio |-> Socio_Roberto,
                 recetas |-> << [Troquel |-> "18001", Codigo |-> "18001",
                                 monodroga |-> "EFAVIRENZ",
                                 descripcion |-> "EFAVIRENZ 600 MG"] >>]
          [] id = "1000073125" ->
                [socio |-> Socio_Maria,
                 recetas |-> << [Troquel |-> "2039", Codigo |-> "3002",
                                 monodroga |-> "IBUPROFENO",
                                 descripcion |-> "IBUPROFENO 400 MG"] >>]
          [] id = "1000073199" ->
                [socio |-> Socio_Roberto,
                 recetas |-> << [Troquel |-> "21955", Codigo |-> "21955",
                                 monodroga |-> "3 TC COMPLEX",
                                 descripcion |-> "3 TC COMPLEX 600 MG"] >>]]

\* main (1).py: Ticket ID -> { ticket, presentacion, descripcion }
TICKETS_MOCK_Init ==
    [id \in {"1000073123", "1000073124", "1000073125", "1000073126"} |->
        CASE id = "1000073123" ->
                [ticket |-> [ObjectID |-> "1269035B88971FD0A4EC29358D190ED9",
                             Filial |-> "60",
                             Socio |-> Socio_Carolina \o Nombre_Carolina,
                             ID |-> "1000073123"],
                 presentacion |-> "45282",
                 descripcion |-> "ABACAVIR/LAMIVUDINA 600/300 MG"]
          [] id = "1000073124" ->
                [ticket |-> [ObjectID |-> "2369045C99982GE1B5FD39469E201FE0",
                             Filial |-> "60",
                             Socio |-> Socio_Roberto \o Nombre_Roberto,
                             ID |-> "1000073124"],
                 presentacion |-> "18001",
                 descripcion |-> "EFAVIRENZ 600 MG"]
          [] id = "1000073125" ->
                [ticket |-> [ObjectID |-> "3470156D00093HF2C6GE40570F312GF1",
                             Filial |-> "60",
                             Socio |-> Socio_Maria \o Nombre_Maria,
                             ID |-> "1000073125"],
                 presentacion |-> "2039",
                 descripcion |-> "IBUPROFENO 400 MG"]
          [] id = "1000073126" ->
                [ticket |-> [ObjectID |-> "4581267E11104IG3D7HF51681G423HG2",
                             Filial |-> "60",
                             Socio |-> Socio_Juan \o Nombre_Juan,
                             ID |-> "1000073126"],
                 presentacion |-> "3002",
                 descripcion |-> "PARACETAMOL 500 MG"]]

-----------------------------------------------------------------------------
(* Inputs the handlers are called with *)

\* Query parameter `id`: a ticket of both stores, one only main.py stores,
\* one only main (1).py stores, and an unknown id.
TicketIds == {"1000073123", "1000073199", "1000073126", "9999999999"}

\* Query parameter `socio` / `socio_id`: two owners' numbers, an unknown
\* number, a stored display form, a longer number that contains an owner's
\* number, and a one-digit fragment of a number.
Socios == {Socio_Carolina, Socio_Roberto, Socio_Desconocido,
           Socio_Carolina \o Nombre_Carolina,
           <<"9">> \o Socio_Carolina,
           <<"6">>}

\* Query parameter `troquel` / `presentacion`.
Troqueles == {"45282", "18001", "23523", "21955", "99999"}

\* What happens to the PostgreSQL access of one request: the connection and
\* the query succeed, or get_conn() / cur.execute() raises.
DbOutcomes == {"ok", "falla"}

\* Rows of public."tablasustitucion_hiv" explored.  No code is registered
\* as the substitute of itself.
Filas == {f \in [codigo : {"21955", "45282", "18000"},
                 sustituye : {0, 1},
                 codigoSustituible : {"23523", "45282", "99999"}] :
             f.sustituye = 1 => f.codigoSustituible # f.codigo}

\* "codigo" is the key of the table: at most one row per code.
RECURSIVE TablasDe(_)
TablasDe(n) ==
    IF n = 0 THEN {{}}
    ELSE LET prev == TablasDe(n - 1)
         IN  prev \cup
             {T \cup {f} : <<T, f>> \in
                 {p \in prev \X Filas :
                     \A r \in p[1] : r.codigo # p[2].codigo}}

\* Contents of public."medicamentos_HIV.csv" explored (column "Presentacion").
Presentaciones == {"45282", "23523"}

-----------------------------------------------------------------------------
(* Outcomes of a handler *)

Return(body) == [kind |-> "return", status |-> 200, body |-> body]

\* raise HTTPException(status_code=..., detail=...)
HTTPException(status_code, detail) ==
    [kind |-> "HTTPException", status |-> status_code,
     body |-> [detail |-> detail]]

\* Any other exception (RuntimeError of get_conn, psycopg2.Error).
Exception(what) == [kind |-> "Exception", status |-> 0,
                    body |-> [detail |-> what]]

\* get_conn() followed by cur.execute(): the exception raised, if any
\* (RuntimeError for missing settings, psycopg2.Error otherwise).
get_conn(db) ==
    IF db # "ok"
    THEN Exception("psycopg2.Error")
    ELSE Return([conn |-> "conn"])

-----------------------------------------------------------------------------
(* GET /obtener_recetas_ticket (main.py) *)

obtener_recetas_ticket(id, socio, recetas_db) ==
    IF id \notin DOMAIN recetas_db
    THEN HTTPException(404, <<"Ticket", id, "no encontrado">>)
    ELSE LET ticket_data == recetas_db[id]
         IN  IF ~StrIn(ticket_data.socio, socio)
             THEN HTTPException(400, "El numero de socio no coincide con el ticket")
             ELSE Return([id_socio |-> socio,
                          ticket_id |-> id,
                          recetas |-> ticket_data.recetas])

(* GET /GetTroquel (main (1).py) *)

get_troquel(id, socio, tickets) ==
    IF id \notin DOMAIN tickets
    THEN HTTPException(404, "No se encontro el ticket")
    ELSE LET ticket_data == tickets[id]
         IN  IF ~StrIn(socio, ticket_data.ticket.Socio)
             THEN HTTPException(400, "El numero de socio no coincide con el ticket")
             ELSE Return([code |->
                     [coding |-> << [system |-> "https://www.osde.com.ar/troquel",
                                     code |-> ticket_data.presentacion] >>,
                      text |-> ticket_data.descripcion]])

-----------------------------------------------------------------------------
(* GET /hiv/check *)

\* Variant: the lookup answers True for every code.
hiv_check_query_siempre_cierto(presentacion, db, registro) ==
    LET conn == get_conn(db)
    IN  IF conn.kind = "Exception" THEN conn
        ELSE Return([es_hiv |-> TRUE])

\* The try block: SELECT EXISTS (... WHERE "Presentacion" = %s).
hiv_check_query(presentacion, db, registro) ==
    LET conn == get_conn(db)
    IN  IF conn.kind = "Exception" THEN conn
        ELSE Return([es_hiv |-> presentacion \in registro])

\* Variant: a failed lookup is answered es_hiv = False.
check_hiv_medication_v1_traga_error(presentacion, db, registro) ==
    LET r == hiv_check_query(presentacion, db, registro)
    IN  IF r.kind # "return"
        THEN Return([presentacion |-> presentacion, es_hiv |-> FALSE])
        ELSE Return([presentacion |-> presentacion, es_hiv |-> r.body.es_hiv])

\* main (1).py: no bypass.
check_hiv_medication_v1(presentacion, db, registro) ==
    LET r == hiv_check_query(presentacion, db, registro)
    IN  IF r.kind # "return"
        THEN HTTPException(500, "Error consultando base")
        ELSE Return([presentacion |-> presentacion, es_hiv |-> r.body.es_hiv])

\* main.py: "Bypass Mock para caso sustitucion", then the same lookup.
check_hiv_medication(presentacion, db, registro) ==
    IF presentacion = "23523"
    THEN Return([presentacion |-> presentacion, es_hiv |-> TRUE])
    ELSE check_hiv_medication_v1(presentacion, db, registro)

-----------------------------------------------------------------------------
(* GET /identificacion_ciclo (main.py) *)

\* The labels are the source's, written without the accent ("Renovacion"
\* stands for the source's accented label).

\* Variant: the Efavirenz renewal case is missing.
identificacion_ciclo_sin_renovacion(troquel, socio_id) ==
    IF troquel = "45282" /\ socio_id = Socio_Carolina
    THEN Return([ciclo |-> "Inicio de tratamiento", codigo |-> 1])
    ELSE IF troquel = "23523" /\ socio_id = Socio_Roberto
    THEN Return([ciclo |-> "Renovacion", codigo |-> 2])
    ELSE Return([ciclo |-> "Indeterminado", codigo |-> 3])

\* Variant: the renewal-with-substitution case is missing.
identificacion_ciclo_sin_sustitucion(troquel, socio_id) ==
    IF troquel = "45282" /\ socio_id = Socio_Carolina
    THEN Return([ciclo |-> "Inicio de tratamiento", codigo |-> 1])
    ELSE IF troquel = "18001" /\ socio_id = Socio_Roberto
    THEN Return([ciclo |-> "Renovacion", codigo |-> 2])
    ELSE Return([ciclo |-> "Indeterminado", codigo |-> 3])

\* Variant: the renewal-with-substitution case forgets to test the member.
identificacion_ciclo_sin_socio(troquel, socio_id) ==
    IF troquel = "45282" /\ socio_id = Socio_Carolina
    THEN Return([ciclo |-> "Inicio de tratamiento", codigo |-> 1])
    ELSE IF troquel = "18001" /\ socio_id = Socio_Roberto
    THEN Return([ciclo |-> "Renovacion", codigo |-> 2])
    ELSE IF troquel = "23523"
    THEN Return([ciclo |-> "Renovacion", codigo |-> 2])
    ELSE Return([ciclo |-> "Indeterminado", codigo |-> 3])

\* Variant: the default case carries the code of another verdict.
identificacion_ciclo_codigo_cruzado(troquel, socio_id) ==
    IF troquel = "45282" /\ socio_id = Socio_Carolina
    THEN Return([ciclo |-> "Inicio de tratamiento", codigo |-> 1])
    ELSE IF troquel = "18001" /\ socio_id = Socio_Roberto
    THEN Return([ciclo |-> "Renovacion", codigo |-> 2])
    ELSE IF troquel = "23523" /\ socio_id = Socio_Roberto
    THEN Return([ciclo |-> "Renovacion", codigo |-> 2])
    ELSE Return([ciclo |-> "Indeterminado", codigo |-> 2])

identificacion_ciclo(troquel, socio_id) ==
    IF troquel = "45282" /\ socio_id = Socio_Carolina
    THEN Return([ciclo |-> "Inicio de tratamiento", codigo |-> 1])
    ELSE IF troquel = "18001" /\ socio_id = Socio_Roberto
    THEN Return([ciclo |-> "Renovacion", codigo |-> 2])
    ELSE IF troquel = "23523" /\ socio_id = Socio_Roberto
    THEN Return([ciclo |-> "Renovacion", codigo |-> 2])
    ELSE Return([ciclo |-> "Indeterminado", codigo |-> 3])

-----------------------------------------------------------------------------
(* GET /agente_sustitutor (main.py) *)

\* Variant: the branches on sustituye are swapped.
sustitutor_try_ramas_cambiadas(troquel, db, tabla) ==
    LET conn == get_conn(db)
        rows == {r \in tabla : r.codigo = troquel}
    IN  IF conn.kind = "Exception" THEN conn
        ELSE IF rows = {}
        THEN HTTPException(404, <<"Troquel", troquel,
                                  "no encontrado en la tabla de sustitucion">>)
        ELSE LET row == CHOOSE r \in rows : TRUE
                 codigo_original == row.codigo
                 sustituye == row.sustituye
                 codigo_sustituible == row.codigoSustituible
             IN  IF sustituye # 1
                 THEN Return([troquel |-> troquel,
                              codigo_original |-> codigo_original,
                              es_sustituible |-> TRUE,
                              mensaje |-> <<"El medicamento es sustituible",
                                            codigo_original, codigo_sustituible>>,
                              codigo_sustituto |-> codigo_sustituible])
                 ELSE Return([troquel |-> troquel,
                              codigo_original |-> codigo_original,
                              es_sustituible |-> FALSE,
                              mensaje |-> <<"El medicamento no es sustituible",
                                            codigo_original>>,
                              codigo_sustituto |-> "None"])

\* The try block: SELECT ... WHERE "codigo" = %s; fetchone(); the branches.
sustitutor_try(troquel, db, tabla) ==
    LET conn == get_conn(db)
        rows == {r \in tabla : r.codigo = troquel}
    IN  IF conn.kind = "Exception" THEN conn
        ELSE IF rows = {}
        THEN HTTPException(404, <<"Troquel", troquel,
                                  "no encontrado en la tabla de sustitucion">>)
        ELSE LET row == CHOOSE r \in rows : TRUE
                 codigo_original == row.codigo
                 sustituye == row.sustituye
                 codigo_sustituible == row.codigoSustituible
             IN  IF sustituye = 1
                 THEN Return([troquel |-> troquel,
                              codigo_original |-> codigo_original,
                              es_sustituible |-> TRUE,
                              mensaje |-> <<"El medicamento es sustituible",
                                            codigo_original, codigo_sustituible>>,
                              codigo_sustituto |-> codigo_sustituible])
                 ELSE Return([troquel |-> troquel,
                              codigo_original |-> codigo_original,
                              es_sustituible |-> FALSE,
                              mensaje |-> <<"El medicamento no es sustituible",
                                            codigo_original>>,
                              codigo_sustituto |-> "None"])

\* Variant: the `except HTTPException: raise` clause is missing, so the
\* generic handler also catches the 404.
agente_sustitutor_sin_reraise(troquel, db, tabla) ==
    LET r == sustitutor_try(troquel, db, tabla)
    IN  IF r.kind \in {"HTTPException", "Exception"}
        THEN HTTPException(500, "Error consultando base de datos")
        ELSE r

\* except HTTPException: raise / except Exception: raise HTTPException(500).
agente_sustitutor(troquel, db, tabla) ==
    LET r == sustitutor_try(troquel, db, tabla)
    IN  IF r.kind = "HTTPException" THEN r
        ELSE IF r.kind = "Exception"
        THEN HTTPException(500, "Error consultando base de datos")
        ELSE r

-----------------------------------------------------------------------------
(* State machine: one action per handler *)

NoCall == [op |-> "none", args |-> <<>>, db |-> "ok", resp |-> Return([x |-> 0])]

Init ==
    /\ MOCK_RECETAS_DB = MOCK_RECETAS_DB_Init
    /\ TICKETS_MOCK = TICKETS_MOCK_Init
    /\ medicamentos_HIV \in SUBSET Presentaciones
    /\ tablasustitucion_hiv \in TablasDe(MaxRules)
    /\ last = NoCall

Call_obtener_recetas_ticket ==
    \E id \in TicketIds, socio \in Socios :
        /\ last' = [op |-> "obtener_recetas_ticket", args |-> <<id, socio>>,
                    db |-> "ok",
                    resp |-> obtener_recetas_ticket(id, socio, MOCK_RECETAS_DB)]
        /\ UNCHANGED stores

Call_get_troquel ==
    \E id \in TicketIds, socio \in Socios :
        /\ last' = [op |-> "get_troquel", args |-> <<id, socio>>,
                    db |-> "ok",
                    resp |-> get_troquel(id, socio, TICKETS_MOCK)]
        /\ UNCHANGED stores

Call_check_hiv_medication ==
    \E presentacion \in Troqueles, db \in DbOutcomes :
        /\ last' = [op |-> "check_hiv_medication", args |-> <<presentacion>>,
                    db |-> db,
                    resp |-> check_hiv_medication(presentacion, db,
                                                  medicamentos_HIV)]
        /\ UNCHANGED stores

Call_check_hiv_medication_v1 ==
    \E presentacion \in Troqueles, db \in DbOutcomes :
        /\ last' = [op |-> "check_hiv_medication_v1", args |-> <<presentacion>>,
                    db |-> db,
                    resp |-> check_hiv_medication_v1(presentacion, db,
                                                     medicamentos_HIV)]
        /\ UNCHANGED stores

Call_identificacion_ciclo ==
    \E troquel \in Troqueles, socio_id \in Socios :
        /\ last' = [op |-> "identificacion_ciclo",
                    args |-> <<troquel, socio_id>>,
                    db |-> "ok",
                    resp |-> identificacion_ciclo(troquel, socio_id)]
        /\ UNCHANGED stores

\* Variant: the lookup consumes the row it read.
Call_agente_sustitutor_borra_fila ==
    \E troquel \in Troqueles, db \in DbOutcomes :
        /\ last' = [op |-> "agente_sustitutor", args |-> <<troquel>>,
                    db |-> db,
                    resp |-> agente_sustitutor(troquel, db,
                                               tablasustitucion_hiv)]
        /\ tablasustitucion_hiv' =
              {r \in tablasustitucion_hiv : r.codigo # troquel}
        /\ UNCHANGED <<MOCK_RECETAS_DB, TICKETS_MOCK, medicamentos_HIV>>

Call_agente_sustitutor ==
    \E troquel \in Troqueles, db \in DbOutcomes :
        /\ last' = [op |-> "agente_sustitutor", args |-> <<troquel>>,
                    db |-> db,
                    resp |-> agente_sustitutor(troquel, db,
                                               tablasustitucion_hiv)]
        /\ UNCHANGED stores

Next ==
    \/ Call_obtener_recetas_ticket
    \/ Call_get_troquel
    \/ Call_check_hiv_medication
    \/ Call_check_hiv_medication_v1
    \/ Call_identificacion_ciclo
    \/ Call_agente_sustitutor

Spec == Init /\ [][Next]_vars

-----------------------------------------------------------------------------
(* Vocabulary of the properties *)

IsCiclo == last.op = "identificacion_ciclo"
IsSustitutor == last.op = "agente_sustitutor"
IsHivCheck == last.op \in {"check_hiv_medication", "check_hiv_medication_v1"}
IsRecetas == last.op \in {"obtener_recetas_ticket", "get_troquel"}

Inicio == [ciclo |-> "Inicio de tratamiento", codigo |-> 1]
Renovacion == [ciclo |-> "Renovacion", codigo |-> 2]
Indeterminado == [ciclo |-> "Indeterminado", codigo |-> 3]

\* The recetas of one ticket, as a set.
RecetasDe(ticket_data) ==
    {ticket_data.recetas[i] : i \in 1..Len(ticket_data.recetas)}

\* Every receta of every ticket.
TodasLasRecetas ==
    UNION {RecetasDe(MOCK_RECETAS_DB[id]) : id \in DOMAIN MOCK_RECETAS_DB}

\* The dispensing history of a member: the recetas of the member's tickets.
Historial(socio) ==
    UNION {RecetasDe(MOCK_RECETAS_DB[id]) :
              id \in {t \in DOMAIN MOCK_RECETAS_DB :
                         MOCK_RECETAS_DB[t].socio = socio}}

\* The medication codes of a member's history.
CodigosHistorial(socio) ==
    {r.Troquel : r \in Historial(socio)} \cup {r.Codigo : r \in Historial(socio)}

\* The member's history holds an event for the same code or the same
\* active ingredient (monodroga).
PrevioEquivalente(troquel, socio) ==
    \/ troquel \in CodigosHistorial(socio)
    \/ \E r \in Historial(socio), q \in TodasLasRecetas :
          /\ troquel \in {q.Troquel, q.Codigo}
          /\ q.monodroga = r.monodroga

\* A substitutable rule has the code at one end and a code of the member's
\* history at the other end.
RelacionSustitucion(troquel, socio) ==
    \E f \in tablasustitucion_hiv :
        /\ f.sustituye = 1
        /\ \/ f.codigo = troquel /\ f.codigoSustituible \in CodigosHistorial(socio)
           \/ f.codigoSustituible = troquel /\ f.codigo \in CodigosHistorial(socio)

\* The three pairs identificacion_ciclo knows.
ParInicio == <<"45282", Socio_Carolina>>
ParRenovacion == <<"18001", Socio_Roberto>>
ParSustitucion == <<"23523", Socio_Roberto>>

-----------------------------------------------------------------------------
(* C1 *)

\* C1 as stated: whenever the member's history holds an event for the same
\* code or the same monodroga, identificacion_ciclo answers Renovacion, 2.
C1_Original ==
    (IsCiclo /\ PrevioEquivalente(last.args[1], last.args[2]))
        => last.resp.body = Renovacion

\* C1 as amended: a pair with a prior equivalent event is answered
\* Renovacion (2) only when it is ("18001", "62245693702"); the pair
\* ("45282", "61134592601") is answered Inicio de tratamiento (1), the
\* initiation test being the first one; every other such pair is answered
\* Indeterminado (3).
C1_Amended ==
    (IsCiclo /\ PrevioEquivalente(last.args[1], last.args[2]))
        => /\ last.resp.kind = "return"
           /\ last.resp.body =
                IF last.args = ParRenovacion THEN Renovacion
                ELSE IF last.args = ParInicio THEN Inicio
                ELSE Indeterminado

C1_Witness ==
    /\ IsCiclo
    /\ PrevioEquivalente(last.args[1], last.args[2])
    /\ last.args = ParRenovacion
    /\ last.resp.body = Renovacion

-----------------------------------------------------------------------------
(* C2 *)

\* C2 as stated: a code that a substitutable rule relates to a code of the
\* member's history is answered Renovacion (2), never Inicio de tratamiento.
C2_Original ==
    (IsCiclo /\ RelacionSustitucion(last.args[1], last.args[2]))
        => last.resp.body = Renovacion

\* C2 as amended: identificacion_ciclo does not read the substitution
\* table.  A pair that a substitutable rule relates to the member's history
\* is answered Renovacion (2) only when it is ("23523", "62245693702") or
\* ("18001", "62245693702"), Inicio de tratamiento (1) when it is
\* ("45282", "61134592601"), and Indeterminado (3) otherwise.
C2_Amended ==
    (IsCiclo /\ RelacionSustitucion(last.args[1], last.args[2]))
        => /\ last.resp.kind = "return"
           /\ last.resp.body =
                IF last.args \in {ParSustitucion, ParRenovacion} THEN Renovacion
                ELSE IF last.args = ParInicio THEN Inicio
                ELSE Indeterminado

C2_Witness ==
    /\ IsCiclo
    /\ RelacionSustitucion(last.args[1], last.args[2])
    /\ last.args = ParSustitucion
    /\ last.resp.body = Renovacion

-----------------------------------------------------------------------------
(* C3 *)

\* C3 as stated: a pair with no history for the code and no substitution
\* rule relating the code to the member's history is answered
\* Indeterminado, 3.
C3_Original ==
    (/\ IsCiclo
     /\ ~PrevioEquivalente(last.args[1], last.args[2])
     /\ ~RelacionSustitucion(last.args[1], last.args[2]))
        => last.resp.body = Indeterminado

\* C3 as amended: such a pair is answered Indeterminado (3) unless it is
\* ("23523", "62245693702"), which is answered Renovacion (2) whether or not
\* the substitution table relates "23523" to the member's history.
C3_Amended ==
    (/\ IsCiclo
     /\ ~PrevioEquivalente(last.args[1], last.args[2])
     /\ ~RelacionSustitucion(last.args[1], last.args[2]))
        => /\ last.resp.kind = "return"
           /\ last.resp.body =
                IF last.args = ParSustitucion THEN Renovacion
                ELSE Indeterminado

C3_Witness ==
    /\ IsCiclo
    /\ ~PrevioEquivalente(last.args[1], last.args[2])
    /\ ~RelacionSustitucion(last.args[1], last.args[2])
    /\ last.args = <<"99999", Socio_Desconocido>>
    /\ last.resp.body = Indeterminado

-----------------------------------------------------------------------------
(* C9 *)

-----------------------------------------------------------------------------
(* C4 *)

\* The call main.py answers before it builds its query.
Bypass == last.op = "check_hiv_medication" /\ last.args[1] = "23523"

\* C4 as stated: with the backend reachable, a code absent from the registry
\* is answered es_hiv = false without failing, and es_hiv is true only for
\* codes of the registry.
C4_Original ==
    IsHivCheck
        => /\ (last.db = "ok" /\ last.args[1] \notin medicamentos_HIV)
                 => /\ last.resp.status = 200
                    /\ last.resp.body.es_hiv = FALSE
           /\ (last.resp.status = 200 /\ last.resp.body.es_hiv)
                 => last.args[1] \in medicamentos_HIV

\* C4 as amended: the statement holds of the handler of main (1).py for
\* every code and of the handler of main.py for every code but "23523";
\* main.py answers es_hiv = true for "23523" without reading the registry.
C4_Amended ==
    IsHivCheck
        => /\ (last.db = "ok" /\ last.args[1] \notin medicamentos_HIV /\ ~Bypass)
                 => /\ last.resp.status = 200
                    /\ last.resp.body.es_hiv = FALSE
           /\ (last.resp.status = 200 /\ last.resp.body.es_hiv)
                 => (last.args[1] \in medicamentos_HIV \/ Bypass)
           /\ Bypass => /\ last.resp.status = 200
                        /\ last.resp.body.es_hiv

C4_Witness ==
    /\ last.op = "check_hiv_medication"
    /\ last.db = "ok"
    /\ last.args[1] = "45282"
    /\ last.args[1] \notin medicamentos_HIV
    /\ last.resp.status = 200
    /\ last.resp.body.es_hiv = FALSE

-----------------------------------------------------------------------------
(* C5 *)

SinFila(troquel) == \A f \in tablasustitucion_hiv : f.codigo # troquel

\* C5: for a code with no row in the substitution table agente_sustitutor
\* never returns a response; when the lookup itself succeeds it ends in 404,
\* which the generic handler does not turn into 500.
C5_Theorem ==
    (IsSustitutor /\ SinFila(last.args[1]))
        => /\ last.resp.kind = "HTTPException"
           /\ last.db = "ok" => last.resp.status = 404

C5_Witness ==
    /\ IsSustitutor
    /\ SinFila(last.args[1])
    /\ last.db = "ok"
    /\ last.resp.status = 404

-----------------------------------------------------------------------------
(* C6 *)

\* The member number of a socio string: what precedes the first blank.
Numero(socio) ==
    LET blancos == {i \in 1..Len(socio) : socio[i] = " "}
    IN  IF blancos = {} THEN socio
        ELSE SubSeq(socio, 1, (CHOOSE i \in blancos :
                                  \A j \in blancos : i <= j) - 1)

\* C6: an unknown ticket ends in 404 whatever the member; a known ticket
\* with a member who is not its owner ends in 400; a response is returned
\* only to the owner of the ticket.
C6_Claim ==
    IsRecetas =>
        LET id == last.args[1]
            socio == last.args[2]
            conocido == IF last.op = "obtener_recetas_ticket"
                        THEN id \in DOMAIN MOCK_RECETAS_DB
                        ELSE id \in DOMAIN TICKETS_MOCK
            titular == IF last.op = "obtener_recetas_ticket"
                       THEN MOCK_RECETAS_DB[id].socio
                       ELSE TICKETS_MOCK[id].ticket.Socio
        IN  /\ ~conocido => last.resp.status = 404
            /\ (conocido /\ Numero(socio) # Numero(titular))
                  => last.resp.status = 400
            /\ last.resp.status = 200
                  => (conocido /\ Numero(socio) = Numero(titular))

-----------------------------------------------------------------------------
(* C7 *)

\* The call reads PostgreSQL: every agente_sustitutor and /hiv/check call
\* but the one main.py answers before building its query.
HaceConsulta == (IsHivCheck \/ IsSustitutor) /\ ~Bypass

-----------------------------------------------------------------------------
(* C8 *)

\* C8: for a code with a row (codigo, sustituye, codigoSustituible) and a
\* lookup that succeeds, the response has es_sustituible = true and
\* codigo_sustituto = codigoSustituible exactly when sustituye = 1, and
\* es_sustituible = false with no codigo_sustituto otherwise;
\* codigo_original is the row's codigo and troquel the requested code.
C8_Theorem ==
    (IsSustitutor /\ last.db = "ok" /\ ~SinFila(last.args[1]))
        => \E f \in tablasustitucion_hiv :
              /\ f.codigo = last.args[1]
              /\ last.resp.kind = "return"
              /\ last.resp.body.troquel = last.args[1]
              /\ last.resp.body.codigo_original = f.codigo
              /\ last.resp.body.es_sustituible = (f.sustituye = 1)
              /\ last.resp.body.codigo_sustituto =
                    IF f.sustituye = 1 THEN f.codigoSustituible ELSE "None"

C8_Witness ==
    /\ IsSustitutor
    /\ last.db = "ok"
    /\ last.args[1] = "21955"
    /\ [codigo |-> "21955", sustituye |-> 1, codigoSustituible |-> "23523"]
          \in tablasustitucion_hiv
    /\ last.resp.body.es_sustituible
    /\ last.resp.body.codigo_sustituto = "23523"

-----------------------------------------------------------------------------
(* C10 *)

\* The outcome of the call recorded in l, computed on the given stores.
Repetir(l, recetas_db, tickets, registro, tabla) ==
    CASE l.op = "obtener_recetas_ticket" ->
            obtener_recetas_ticket(l.args[1], l.args[2], recetas_db)
      [] l.op = "get_troquel" ->
            get_troquel(l.args[1], l.args[2], tickets)
      [] l.op = "check_hiv_medication" ->
            check_hiv_medication(l.args[1], l.db, registro)
      [] l.op = "check_hiv_medication_v1" ->
            check_hiv_medication_v1(l.args[1], l.db, registro)
      [] l.op = "identificacion_ciclo" ->
            identificacion_ciclo(l.args[1], l.args[2])
      [] l.op = "agente_sustitutor" ->
            agente_sustitutor(l.args[1], l.db, tabla)
      [] OTHER -> l.resp

\* C10: no handler changes the recetas, the tickets, the registry or the
\* substitution table, and the call just made, repeated on the stores it
\* leaves behind, has the same outcome.
C10_Theorem ==
    [][/\ MOCK_RECETAS_DB' = MOCK_RECETAS_DB
       /\ TICKETS_MOCK' = TICKETS_MOCK
       /\ medicamentos_HIV' = medicamentos_HIV
       /\ tablasustitucion_hiv' = tablasustitucion_hiv
       /\ Repetir(last', MOCK_RECETAS_DB', TICKETS_MOCK', medicamentos_HIV',
                  tablasustitucion_hiv') = last'.resp]_vars

C10_Witness ==
    /\ IsSustitutor
    /\ last.db = "ok"
    /\ ~SinFila(last.args[1])
    /\ last.resp.status = 200
    /\ MOCK_RECETAS_DB = MOCK_RECETAS_DB_Init
    /\ TICKETS_MOCK = TICKETS_MOCK_Init

====
